---- MODULE Spec2Model ----
(***************************************************************************)
(* Chor-Dakat-Babu-Police game servers.                                    *)
(*                                                                         *)
(* Two independent programs live in the repository:                        *)
(*   src/server.js        the shuffle-driven server (variables players,    *)
(*                        waiting, currentPlayers, gameStarted, ...)       *)
(*   src/server/index.js  the timer-driven server (variables idxPlayers,   *)
(*                        waitingQueue, gameInProgress, timers, ...)       *)
(* Each socket.io handler is one action.  The random shuffle of            *)
(* assignRoles and the payloads of the events are inputs, drawn with \E.   *)
(***************************************************************************)
EXTENDS Integers, Sequences, FiniteSets, TLC

VARIABLES
  \* ---- src/server.js
  players,          \* registry: socket id -> [name, score, role, pending]
  waiting,          \* waiting queue (sequence of socket ids)
  currentPlayers,   \* roster of the game (sequence of socket ids)
  gameStarted,
  awaitingShuffle,
  currentRound,
  history,          \* sequence of [round, correct, gains]
  out,              \* the last batch of the log of emitted events, in order
  crashed,          \* a handler threw: the node process is gone
  sockets,          \* connections accepted so far: the next socket id is new
  \* ---- src/server/index.js
  idxPlayers,       \* registry: socket id -> [name, score, role]
  idxKeys,          \* insertion order of the keys of the registry
  waitingQueue,
  gameInProgress,
  idxRound,         \* currentRound of src/server/index.js
  idxCurrent,       \* currentPlayers of src/server/index.js
  timers,           \* pending setTimeout callbacks, in the order they were set
  idxOut,           \* the last batch of the log of emitted events, in order
  idxSockets        \* connections accepted so far

varsA == <<players, waiting, currentPlayers, gameStarted, awaitingShuffle,
           currentRound, history, out, crashed, sockets>>
varsB == <<idxPlayers, idxKeys, waitingQueue, gameInProgress, idxRound,
           idxCurrent, timers, idxOut, idxSockets>>
vars == <<varsA, varsB>>

----------------------------------------------------------------------------
(* Bounds of the model *)

\* connections (socket ids) of the lobby specifications
NConn == 5
\* connections of the specifications that play a whole game
NConnGame == 4
\* rounds a game is followed for in the lobby specifications
RoundCap == 2
\* rounds a game is followed for when every shuffle outcome is drawn
RoundCapAll == 2
\* rounds past MAX_ROUNDS a game is followed for in the whole-game specifications
ExtraRounds == 1
\* shuffle outcomes drawn in the lobby specifications
NShuffle == 2
\* shuffle outcomes drawn in the whole-game specifications
NShuffleGame == 1
\* connections (socket ids) of src/server/index.js
NConnIdx == 5
\* shuffle outcomes drawn in src/server/index.js
NShuffleIdx == 1
\* callbacks of setTimeout that may be pending at once
MaxTimers == 2
\* the scores src/server/index.js is followed for: -ScoreCap..ScoreCap
ScoreCap == 2000
\* connections of the whole-game specification of src/server/index.js
NConnIdxGame == 4
\* the scores a whole game of src/server/index.js is followed for
ScoreCapGame == 12000
\* connections of the specification that draws every payload of join
NConnNames == 4
\* rounds a game is followed for in that specification
RoundCapNames == 1
\* connections of the specification of a game that nobody leaves or restarts
NConnLive == 4

(* Program constants *)
MAX_ROUNDS == 10

NoId == 0

Roles == <<"Babu", "Police", "Chor", "Dakat">>
RoleSet == {"Babu", "Police", "Chor", "Dakat"}

rolePoints == [Babu |-> 900, Police |-> 800, Chor |-> 400, Dakat |-> 600]

----------------------------------------------------------------------------
(* Arrays *)

Range(s) == {s[i] : i \in DOMAIN s}

Includes(s, x) == \E i \in DOMAIN s : s[i] = x

\* Array.prototype.find, from the entries that pass its test, in order: the
\* first one, or NoId (undefined) when none does
Find(passing) == IF passing = <<>> THEN NoId ELSE Head(passing)

\* a slice that takes the last n entries
SliceLast(s, n) == SubSeq(s, IF Len(s) < n THEN 1 ELSE Len(s) - n + 1, Len(s))

\* Array.prototype.slice(0, n)
Slice(s, n) == SubSeq(s, 1, IF Len(s) < n THEN Len(s) ELSE n)

Min(S) == CHOOSE x \in S : \A y \in S : x <= y

\* number of places of s that hold x
Count(s, x) == Cardinality({i \in DOMAIN s : s[i] = x})

----------------------------------------------------------------------------
(* Names: strings are sequences of characters *)

Space == " "

RECURSIVE TrimLeft(_)
TrimLeft(n) ==
  IF n # <<>> /\ Head(n) = Space THEN TrimLeft(Tail(n)) ELSE n

RECURSIVE TrimRight(_)
TrimRight(n) ==
  IF n # <<>> /\ n[Len(n)] = Space THEN TrimRight(SubSeq(n, 1, Len(n) - 1)) ELSE n

\* String.prototype.trim
Trim(n) == TrimRight(TrimLeft(n))

\* a payload of join: a string, or something that is not one
NotAString == [isString |-> FALSE, str |-> <<>>]
Str(n) == [isString |-> TRUE, str |-> n]

\* the payloads of join: every one, and the ones that name a player
JoinPayloads ==
  {NotAString, Str(<<>>), Str(<<" ">>), Str(<<"a">>), Str(<<" ", "a">>), Str(<<"b">>)}

NamingPayloads == {NotAString, Str(<<>>), Str(<<"a">>), Str(<<" ", "a">>)}

\* the payloads of guess in src/server.js: {id, name}; a missing field is
\* NoId or the empty string (both falsy)
GuessPayloads(n) ==
  {[id |-> i, name |-> m] : i \in 0..n, m \in {<<>>, <<"a">>}}

----------------------------------------------------------------------------
(* Shuffles: the orders roles.sort(() => Math.random() - 0.5) can leave the
   four roles in *)

Perms ==
  {<<p[1], p[2], p[3], p[4]>> :
     p \in {q \in [1..4 -> RoleSet] : \A i, j \in 1..4 : i # j => q[i] # q[j]}}

RoleIdx(r) == CHOOSE i \in 1..4 : Roles[i] = r

PermKey(p) ==
  RoleIdx(p[1]) * 64 + RoleIdx(p[2]) * 16 + RoleIdx(p[3]) * 4 + RoleIdx(p[4])

\* the outcomes the bounded specifications draw first: between them every
\* roster place holds the Police, and the Chor and the Dakat change places
FirstShuffles ==
  << <<"Babu", "Police", "Chor", "Dakat">>,
     <<"Police", "Dakat", "Babu", "Chor">>,
     <<"Chor", "Babu", "Dakat", "Police">>,
     <<"Dakat", "Chor", "Police", "Babu">> >>

\* an enumeration of Perms: FirstShuffles, then the others by PermKey
PermRank(p) ==
  IF \E i \in DOMAIN FirstShuffles : FirstShuffles[i] = p
  THEN CHOOSE i \in DOMAIN FirstShuffles : FirstShuffles[i] = p
  ELSE Len(FirstShuffles)
       + Cardinality({q \in Perms \ Range(FirstShuffles) : PermKey(q) <= PermKey(p)})

\* the first n outcomes; all 24 from n = 24 on
Shuffles(n) == {<<p[1], p[2], p[3], p[4]>> : p \in {q \in Perms : PermRank(q) <= n}}

----------------------------------------------------------------------------
(* Array.prototype.sort of Node.js 22 (README: v22.18.0 or later) on an array
   of four, as roles.sort(() => Math.random() - 0.5) and
   roles.sort(() => 0.5 - Math.random()) call it.  The comparator ignores its
   arguments: each call is negative or not with the same chance, whatever the
   sort compares.  less[k] is whether the k-th call returned a negative
   number.  The sort finds the run at the head of the array, reverses it when
   it descends, and inserts the other elements by binary search. *)

\* the roles array of src/server/index.js
idxRoles == <<"Babu", "Police", "Dakat", "Chor">>

\* the most calls of the comparator one sort of four elements makes
MaxCompare == 6

\* the answers of the comparator, padded to MaxCompare calls: equally likely
Comparisons == [1..MaxCompare -> BOOLEAN]

Reverse(s) == [i \in DOMAIN s |-> s[Len(s) + 1 - i]]

\* the length of the run at the head of an array of n: k elements are in it
\* and call k decides whether the next one is
RECURSIVE RunLength(_, _, _)
RunLength(less, n, k) ==
  IF k >= n THEN n
  ELSE IF less[k] = less[1] THEN RunLength(less, n, k + 1)
  ELSE k

\* the array with its head run ascending, the length of the run and the
\* number of calls made
CountAndMakeRun(array, less) ==
  LET n == RunLength(less, Len(array), 2)
  IN  [array |-> IF less[1]
                 THEN Reverse(SubSeq(array, 1, n)) \o SubSeq(array, n + 1, Len(array))
                 ELSE array,
       runLength |-> n,
       used |-> IF n < Len(array) THEN n ELSE Len(array) - 1]

\* binary search for the place of the pivot among the places left..right-1
\* (counted from 0), from call used + 1 on
RECURSIVE Search(_, _, _, _)
Search(less, used, left, right) ==
  IF left < right
  THEN LET mid == left + ((right - left) \div 2)
       IN  IF less[used + 1]
           THEN Search(less, used + 1, left, mid)
           ELSE Search(less, used + 1, mid + 1, right)
  ELSE [left |-> left, used |-> used]

\* the places 0..start-1 are sorted; the others are inserted one by one
RECURSIVE BinaryInsertionSort(_, _, _, _)
BinaryInsertionSort(array, less, used, start) ==
  IF start >= Len(array) THEN array
  ELSE LET at == Search(less, used, 0, start)
           moved == SubSeq(array, 1, at.left) \o <<array[start + 1]>>
                      \o SubSeq(array, at.left + 1, start)
                      \o SubSeq(array, start + 2, Len(array))
       IN  BinaryInsertionSort(moved, less, at.used, start + 1)

sort(array, less) ==
  LET run == CountAndMakeRun(array, less)
  IN  BinaryInsertionSort(run.array, less, run.used, run.runLength)

\* of the Cardinality(Comparisons) equally likely answers, how many leave
\* the roles of src/server.js in the order p
Chance ==
  [p \in Perms |-> Cardinality({less \in Comparisons : sort(Roles, less) = p})]

\* the same for the roles of src/server/index.js
idxChance ==
  [p \in Perms |-> Cardinality({less \in Comparisons : sort(idxRoles, less) = p})]

----------------------------------------------------------------------------
(* Emitted events.  to = NoId is io.emit (every connected socket). *)

Emit(ev, to, arg) == [ev |-> ev, to |-> to, arg |-> arg]

\* forEach over a roster, one emit per entry
EmitEach(roster, ev, arg) == [i \in DOMAIN roster |-> Emit(ev, roster[i], arg)]

Emitted(o, ev) == \E i \in DOMAIN o : o[i].ev = ev

\* the last batch of the log after a handler emitted batch: a handler that
\* emits nothing adds nothing to the log
Log(last, batch) == IF batch = <<>> THEN last ELSE batch

----------------------------------------------------------------------------
(* src/server.js *)

NewPlayer == [name |-> <<>>, score |-> 0, role |-> "", pending |-> 0]

\* waiting.map(id => players[id].name).filter(Boolean)
LobbyNames(pl, w) ==
  LET names == [i \in DOMAIN w |-> pl[w[i]].name]
  IN  SelectSeq(names, LAMBDA n : n # <<>>)

\* ClearPlayers forgetting the scores
ClearPlayersKeepScore(pl, roster) ==
  [i \in DOMAIN pl |->
     IF Includes(roster, i)
     THEN [pl[i] EXCEPT !.role = "", !.pending = 0]
     ELSE pl[i]]

\* ClearPlayers resetting the scores only
ClearPlayersScoreOnly(pl, roster) ==
  [i \in DOMAIN pl |->
     IF Includes(roster, i) THEN [pl[i] EXCEPT !.score = 0] ELSE pl[i]]

\* ClearPlayers forgetting the roles
ClearPlayersKeepRole(pl, roster) ==
  [i \in DOMAIN pl |->
     IF Includes(roster, i)
     THEN [pl[i] EXCEPT !.score = 0, !.pending = 0]
     ELSE pl[i]]

\* the forEach that clears score, role and pending of a roster
ClearPlayers(pl, roster) ==
  [i \in DOMAIN pl |->
     IF Includes(roster, i)
     THEN [pl[i] EXCEPT !.score = 0, !.role = "", !.pending = 0]
     ELSE pl[i]]

\* the longest prefix of a roster whose ids are all registered: a forEach that
\* dereferences players[id] throws at the first id that is not
Registered(pl, roster) ==
  IF \A i \in DOMAIN roster : roster[i] \in DOMAIN pl
  THEN roster
  ELSE SubSeq(roster, 1,
              Min({i \in DOMAIN roster : roster[i] \notin DOMAIN pl}) - 1)

Throws(pl, roster) == \E i \in DOMAIN roster : roster[i] \notin DOMAIN pl

\* assignRoles: the forEach over the roster, place idx taking shuffled[idx];
\* a later place of the same id overwrites role and pending, and every place
\* that holds the Babu adds its points
assignRoles(pl, roster, shuffled) ==
  [i \in DOMAIN pl |->
     IF Includes(roster, i)
     THEN LET last == CHOOSE k \in DOMAIN roster :
                        roster[k] = i /\ \A j \in DOMAIN roster : roster[j] = i => j <= k
              babus == {k \in DOMAIN roster : roster[k] = i /\ shuffled[k] = "Babu"}
          IN  [pl[i] EXCEPT !.role = shuffled[last],
                            !.pending = rolePoints[shuffled[last]],
                            !.score = @ + rolePoints.Babu * Cardinality(babus)]
     ELSE pl[i]]

guessTarget(round) == IF round % 2 = 1 THEN "Chor" ELSE "Dakat"

\* currentPlayers.find(id => players[id].role === role)
Holder(pl, roster, role) ==
  Find(SelectSeq(roster, LAMBDA id : pl[id].role = role))

\* the suspects of policeTurn
Suspects(pl, roster, policeId) ==
  SelectSeq(roster, LAMBDA id : id # policeId /\ pl[id].role # "Babu")

\* startRound, on a roster whose ids are all registered
startRound(shuffled) ==
  LET pl == assignRoles(players, currentPlayers, shuffled)
      round == currentRound + 1
      policeId == Holder(pl, currentPlayers, "Police")
  IN  /\ currentRound' = round
      /\ players' = pl
      /\ awaitingShuffle' = TRUE
      /\ out' = EmitEach(currentPlayers, "rolesAssigned", round)
                \o (IF policeId # NoId
                    THEN <<Emit("policeTurn", policeId,
                                [guessTarget |-> guessTarget(round),
                                 suspects |-> Suspects(pl, currentPlayers, policeId)])>>
                    ELSE <<>>)
      /\ UNCHANGED <<waiting, currentPlayers, gameStarted, history, crashed>>

\* io.on('connection')
Connection(n, s) ==
  /\ ~crashed
  /\ s \in 1..n
  /\ s = sockets + 1
  /\ sockets' = s
  /\ UNCHANGED varsB
  /\ players' = [i \in DOMAIN players \cup {s} |->
                   IF i = s THEN NewPlayer ELSE players[i]]
  /\ waiting' = Append(waiting, s)
  /\ out' = <<Emit("updatePlayers", NoId, LobbyNames(players', waiting'))>>
  /\ UNCHANGED <<currentPlayers, gameStarted, awaitingShuffle, currentRound,
                 history, crashed>>

\* socket.on('join'): the early return
JoinRejected(name) == ~name.isString \/ name.str = <<>>

\* socket.on('join')
Join(s, name) ==
  /\ ~crashed
  /\ s \in DOMAIN players
  /\ UNCHANGED <<sockets, varsB>>
  /\ IF JoinRejected(name)
     THEN /\ UNCHANGED out
          /\ UNCHANGED <<players, waiting, currentPlayers, gameStarted,
                         awaitingShuffle, currentRound, history, crashed>>
     ELSE LET named == [players EXCEPT ![s].name = Trim(name.str)]
              ready == SelectSeq(waiting, LAMBDA id : named[id].name # <<>>)
              lobby == Emit("updatePlayers", NoId, LobbyNames(named, waiting))
          IN  IF ~gameStarted /\ Len(ready) >= 4
              THEN LET roster == Slice(ready, 4)
                   IN  /\ currentPlayers' = roster
                       /\ waiting' = SelectSeq(waiting, LAMBDA id : ~Includes(roster, id))
                       /\ gameStarted' = TRUE
                       /\ currentRound' = 0
                       /\ history' = <<>>
                       /\ awaitingShuffle' = FALSE
                       /\ players' = ClearPlayers(named, roster)
                       /\ out' = <<lobby>> \o EmitEach(roster, "enableShuffle", <<>>)
                       /\ UNCHANGED crashed
              ELSE /\ players' = named
                   /\ out' = <<lobby>>
                   /\ UNCHANGED <<waiting, currentPlayers, gameStarted,
                                  awaitingShuffle, currentRound, history, crashed>>

\* the guard of shuffle with its test of awaitingShuffle the wrong way round
ShuffleAcceptedOnlyAwaiting(s) ==
  gameStarted /\ awaitingShuffle /\ Includes(currentPlayers, s)

\* the guard of shuffle without its test of awaitingShuffle
ShuffleAcceptedWhileAwaiting(s) ==
  gameStarted /\ Includes(currentPlayers, s)

\* socket.on('shuffle'): the guard
ShuffleAccepted(s) ==
  gameStarted /\ ~awaitingShuffle /\ Includes(currentPlayers, s)

\* socket.on('shuffle'); a started round is followed up to round cap
Shuffle(s, shuffled, cap) ==
  /\ ~crashed
  /\ s \in DOMAIN players
  /\ UNCHANGED <<sockets, varsB>>
  /\ IF ShuffleAccepted(s)
     THEN /\ currentRound < cap
          /\ IF Throws(players, currentPlayers)
             THEN /\ crashed' = TRUE
                  /\ currentRound' = currentRound + 1
                  /\ players' = assignRoles(players,
                                            Registered(players, currentPlayers),
                                            shuffled)
                  /\ UNCHANGED out
                  /\ UNCHANGED <<waiting, currentPlayers, gameStarted,
                                 awaitingShuffle, history>>
             ELSE startRound(shuffled)
     ELSE /\ UNCHANGED out
          /\ UNCHANGED <<players, waiting, currentPlayers, gameStarted,
                         awaitingShuffle, currentRound, history, crashed>>

\* Gains taking the points of the Police away after a wrong guess
GainsWrongGuessFined(pl, roster, round, policeId, correct) ==
  LET chorId == Holder(pl, roster, "Chor")
      dakatId == Holder(pl, roster, "Dakat")
      babuId == Holder(pl, roster, "Babu")
      target == guessTarget(round)
  IN  [id \in Range(roster) |->
         (IF id = babuId THEN rolePoints.Babu ELSE 0)
         + (IF id = policeId
            THEN (IF correct THEN rolePoints.Police ELSE 0 - rolePoints.Police)
            ELSE 0)
         + (IF id = dakatId /\ (target = "Chor" \/ ~correct) THEN rolePoints.Dakat ELSE 0)
         + (IF id = chorId /\ (target = "Dakat" \/ ~correct) THEN rolePoints.Chor ELSE 0)]

\* Gains paying the Police for a right guess only while its score is 0
GainsByScore(pl, roster, round, policeId, correct) ==
  LET chorId == Holder(pl, roster, "Chor")
      dakatId == Holder(pl, roster, "Dakat")
      babuId == Holder(pl, roster, "Babu")
      target == guessTarget(round)
  IN  [id \in Range(roster) |->
         (IF id = babuId THEN rolePoints.Babu ELSE 0)
         + (IF correct /\ id = policeId /\ pl[id].score = 0 THEN rolePoints.Police ELSE 0)
         + (IF id = dakatId /\ (target = "Chor" \/ ~correct) THEN rolePoints.Dakat ELSE 0)
         + (IF id = chorId /\ (target = "Dakat" \/ ~correct) THEN rolePoints.Chor ELSE 0)]

\* Gains paying the Chor even when the Police names the Chor
GainsChorAlways(pl, roster, round, policeId, correct) ==
  LET chorId == Holder(pl, roster, "Chor")
      dakatId == Holder(pl, roster, "Dakat")
      babuId == Holder(pl, roster, "Babu")
      target == guessTarget(round)
  IN  [id \in Range(roster) |->
         (IF id = babuId THEN rolePoints.Babu ELSE 0)
         + (IF correct /\ id = policeId THEN rolePoints.Police ELSE 0)
         + (IF id = dakatId /\ (target = "Chor" \/ ~correct) THEN rolePoints.Dakat ELSE 0)
         + (IF id = chorId THEN rolePoints.Chor ELSE 0)]

\* resolveRound: the per-id gains table of a round
Gains(pl, roster, round, policeId, correct) ==
  LET chorId == Holder(pl, roster, "Chor")
      dakatId == Holder(pl, roster, "Dakat")
      babuId == Holder(pl, roster, "Babu")
      target == guessTarget(round)
  IN  [id \in Range(roster) |->
         (IF id = babuId THEN rolePoints.Babu ELSE 0)
         + (IF correct /\ id = policeId THEN rolePoints.Police ELSE 0)
         + (IF id = dakatId /\ (target = "Chor" \/ ~correct) THEN rolePoints.Dakat ELSE 0)
         + (IF id = chorId /\ (target = "Dakat" \/ ~correct) THEN rolePoints.Chor ELSE 0)]

\* resolveRound: whether the guess names the holder of the round's target role
Correct(pl, roster, round, guessedId) ==
  IF guessTarget(round) = "Chor"
  THEN guessedId = Holder(pl, roster, "Chor")
  ELSE guessedId = Holder(pl, roster, "Dakat")

\* ApplyGains without the exception of the Babu
ApplyGainsBabuToo(pl, roster, gains) ==
  [i \in DOMAIN pl |->
     IF Includes(roster, i)
     THEN [pl[i] EXCEPT !.score = @ + gains[i] * Count(roster, i)]
     ELSE pl[i]]

\* resolveRound: the forEach that adds the gains to the cumulative scores,
\* once per roster place, the Babu excepted
ApplyGains(pl, roster, gains) ==
  [i \in DOMAIN pl |->
     IF Includes(roster, i) /\ pl[i].role # "Babu"
     THEN [pl[i] EXCEPT !.score = @ + gains[i] * Count(roster, i)]
     ELSE pl[i]]

\* resolveRound: the winners of gameOver, by name, in roster order
Winners(pl, roster) ==
  LET highest == CHOOSE h \in {pl[id].score : id \in Range(roster)} :
                   \A id \in Range(roster) : pl[id].score <= h
      ids == SelectSeq(roster, LAMBDA id : pl[id].score = highest)
  IN  [k \in DOMAIN ids |-> pl[ids[k]].name]

\* HistoryEntry numbering the entry one round late
HistoryEntryNextRound(round, correct, roster, gains) ==
  [round |-> round + 1,
   correct |-> correct,
   gains |-> [k \in DOMAIN roster |-> [id |-> roster[k], points |-> gains[roster[k]]]]]

\* resolveRound: the entry pushed to the history
HistoryEntry(round, correct, roster, gains) ==
  [round |-> round,
   correct |-> correct,
   gains |-> [k \in DOMAIN roster |-> [id |-> roster[k], points |-> gains[roster[k]]]]]

\* resolveRound
resolveRound(policeId, guessedId) ==
  LET chorId == Holder(players, currentPlayers, "Chor")
      dakatId == Holder(players, currentPlayers, "Dakat")
      correct == Correct(players, currentPlayers, currentRound, guessedId)
      gains == Gains(players, currentPlayers, currentRound, policeId, correct)
      scored == ApplyGains(players, currentPlayers, gains)
      entry == HistoryEntry(currentRound, correct, currentPlayers, gains)
      result == EmitEach(currentPlayers, "roundResult",
                         [round |-> currentRound, correct |-> correct])
  IN  IF ~correct /\ (chorId = NoId \/ dakatId = NoId)
      THEN \* the message of a wrong guess reads players[undefined].name
           /\ crashed' = TRUE
           /\ UNCHANGED out
           /\ UNCHANGED <<players, waiting, currentPlayers, gameStarted,
                          awaitingShuffle, currentRound, history>>
      ELSE IF chorId = NoId \/ dakatId = NoId
      THEN \* the payload of roundResult reads players[undefined].name
           /\ crashed' = TRUE
           /\ players' = scored
           /\ history' = Append(history, entry)
           /\ UNCHANGED out
           /\ UNCHANGED <<waiting, currentPlayers, gameStarted,
                          awaitingShuffle, currentRound>>
      ELSE /\ players' = scored
           /\ history' = Append(history, entry)
           /\ awaitingShuffle' = FALSE
           /\ out' = result \o
                (IF currentRound >= MAX_ROUNDS
                 THEN EmitEach(currentPlayers, "gameOver",
                               Winners(scored, currentPlayers))
                 ELSE EmitEach(currentPlayers, "enableShuffle", <<>>))
           /\ UNCHANGED <<waiting, currentPlayers, gameStarted, currentRound,
                          crashed>>

\* the guards of guess without the test of the sender's role
GuessAcceptedAnySender(s) ==
  gameStarted /\ awaitingShuffle

\* socket.on('guess'): the guards before the target lookup
GuessAccepted(s) ==
  gameStarted /\ awaitingShuffle /\ players[s].role = "Police"

\* TargetId looking the name up before the id
TargetIdNameFirst(pl, roster, data) ==
  IF data.name # <<>>
     /\ Find(SelectSeq(roster, LAMBDA id : pl[id].name = data.name)) # NoId
  THEN Find(SelectSeq(roster, LAMBDA id : pl[id].name = data.name))
  ELSE IF data.id # NoId /\ Includes(roster, data.id)
       THEN data.id
       ELSE NoId

\* socket.on('guess'): the target of the payload, NoId for none
TargetId(pl, roster, data) ==
  IF data.id # NoId /\ Includes(roster, data.id)
  THEN data.id
  ELSE IF data.name # <<>>
       THEN Find(SelectSeq(roster, LAMBDA id : pl[id].name = data.name))
       ELSE NoId

\* socket.on('guess')
Guess(s, data) ==
  /\ ~crashed
  /\ s \in DOMAIN players
  /\ UNCHANGED <<sockets, varsB>>
  /\ IF GuessAccepted(s) /\ Throws(players, currentPlayers)
     THEN \* a find of the roster reads players[id] of an unregistered id
          /\ crashed' = TRUE
          /\ UNCHANGED out
          /\ UNCHANGED <<players, waiting, currentPlayers, gameStarted,
                         awaitingShuffle, currentRound, history>>
     ELSE IF GuessAccepted(s) /\ TargetId(players, currentPlayers, data) # NoId
     THEN resolveRound(s, TargetId(players, currentPlayers, data))
     ELSE /\ UNCHANGED out
          /\ UNCHANGED <<players, waiting, currentPlayers, gameStarted,
                         awaitingShuffle, currentRound, history, crashed>>

\* delete players[socket.id] that also resets the scores of the others
DeleteResettingScores(pl, s) ==
  [i \in DOMAIN pl \ {s} |-> [pl[i] EXCEPT !.score = 0]]

\* delete players[socket.id]
Delete(pl, s) == [i \in DOMAIN pl \ {s} |-> pl[i]]

\* socket.on('disconnect'), the player of an active game
DisconnectInGame(s) ==
  LET rest == SelectSeq(currentPlayers, LAMBDA id : id # s)
      cleared == ClearPlayers(players, Registered(players, rest))
  IN  /\ currentPlayers' = rest
      /\ history' = <<>>
      /\ currentRound' = 0
      /\ awaitingShuffle' = FALSE
      /\ gameStarted' = FALSE
      /\ IF Throws(players, rest)
         THEN /\ crashed' = TRUE
              /\ players' = cleared
              /\ UNCHANGED out
              /\ UNCHANGED waiting
         ELSE /\ waiting' = waiting \o rest
              /\ players' = Delete(cleared, s)
              /\ out' = <<Emit("playerLeft", NoId, <<>>),
                          Emit("updatePlayers", NoId, LobbyNames(cleared, waiting'))>>
              /\ UNCHANGED crashed

\* socket.on('disconnect')
Disconnect(s) ==
  /\ ~crashed
  /\ s \in DOMAIN players
  /\ UNCHANGED <<sockets, varsB>>
  /\ IF Includes(waiting, s)
     THEN /\ waiting' = SelectSeq(waiting, LAMBDA id : id # s)
          /\ players' = Delete(players, s)
          /\ out' = <<Emit("updatePlayers", NoId, LobbyNames(players', waiting'))>>
          /\ UNCHANGED <<currentPlayers, gameStarted, awaitingShuffle,
                         currentRound, history, crashed>>
     ELSE IF Includes(currentPlayers, s)
     THEN DisconnectInGame(s)
     ELSE /\ players' = Delete(players, s)
          /\ out' = <<Emit("updatePlayers", NoId, LobbyNames(players', waiting))>>
          /\ UNCHANGED <<waiting, currentPlayers, gameStarted, awaitingShuffle,
                         currentRound, history, crashed>>

\* socket.on('restart')
Restart(s) ==
  /\ ~crashed
  /\ s \in DOMAIN players
  /\ UNCHANGED <<sockets, varsB>>
  /\ IF Len(currentPlayers) = 0
     THEN /\ UNCHANGED out
          /\ UNCHANGED <<players, waiting, currentPlayers, gameStarted,
                         awaitingShuffle, currentRound, history, crashed>>
     ELSE /\ waiting' = waiting \o currentPlayers
          /\ players' = ClearPlayers(players, Registered(players, currentPlayers))
          /\ IF Throws(players, currentPlayers)
             THEN /\ crashed' = TRUE
                  /\ UNCHANGED out
                  /\ UNCHANGED <<currentPlayers, gameStarted, awaitingShuffle,
                                 currentRound, history>>
             ELSE /\ currentPlayers' = <<>>
                  /\ history' = <<>>
                  /\ currentRound' = 0
                  /\ awaitingShuffle' = FALSE
                  /\ gameStarted' = FALSE
                  /\ out' = <<Emit("gameReset", NoId, <<>>),
                              Emit("updatePlayers", NoId, LobbyNames(players', waiting'))>>
                  /\ UNCHANGED crashed

----------------------------------------------------------------------------
(* src/server/index.js *)

ROLE_POINTS == [Babu |-> 1000, Police |-> 500, Dakat |-> 300, Chor |-> 0]

\* role: null
Null == "null"

idxNewPlayer == [name |-> <<>>, score |-> 0, role |-> Null]

\* the delay of a callback, in milliseconds
Delay(kind) == IF kind = "first" THEN 1000 ELSE 4000

\* a pending callback runs before every callback set after it with the same
\* or a longer delay
MayFire(k) == \A j \in 1..(k - 1) : Delay(timers[j]) > Delay(timers[k])

RemoveAt(s, k) == SubSeq(s, 1, k - 1) \o SubSeq(s, k + 1, Len(s))

\* assignRoles of src/server/index.js: every place adds its role's points
idxAssignRoles(pl, roster, shuffled) ==
  [i \in DOMAIN pl |->
     IF Includes(roster, i)
     THEN LET k == CHOOSE j \in DOMAIN roster : roster[j] = i
          IN  [pl[i] EXCEPT !.role = shuffled[k],
                            !.score = @ + ROLE_POINTS[shuffled[k]]]
     ELSE pl[i]]

\* the forEach that clears the roles of a roster
ClearRoles(pl, roster) ==
  [i \in DOMAIN pl |->
     IF Includes(roster, i) THEN [pl[i] EXCEPT !.role = Null] ELSE pl[i]]

\* resetGame
resetGame(pl, keys, emitted) ==
  /\ gameInProgress' = FALSE
  /\ idxRound' = 0
  /\ idxCurrent' = <<>>
  /\ waitingQueue' = keys
  /\ idxPlayers' = ClearRoles(pl, keys)
  /\ idxOut' = emitted \o <<Emit("gameReset", NoId, <<>>)>>

\* startRound of src/server/index.js, from the registry pl
idxStartRound(pl, shuffled) ==
  LET assigned == idxAssignRoles(pl, idxCurrent, shuffled)
      round == idxRound + 1
      policeId == Find(SelectSeq(idxCurrent, LAMBDA id : assigned[id].role = "Police"))
  IN  /\ idxRound' = round
      /\ idxPlayers' = assigned
      /\ idxOut' = Log(idxOut,
                       [k \in DOMAIN idxCurrent |->
                          Emit("roleAssigned", idxCurrent[k],
                               [role |-> assigned[idxCurrent[k]].role, round |-> round])]
                       \o (IF policeId # NoId
                           THEN <<Emit("requestGuess", policeId,
                                       SelectSeq(idxCurrent, LAMBDA id : id # policeId))>>
                           ELSE <<>>))

\* io.on('connection') of src/server/index.js
idxConnection(n, s) ==
  /\ s \in 1..n
  /\ s = idxSockets + 1
  /\ idxSockets' = s
  /\ UNCHANGED varsA
  /\ idxPlayers' = [i \in DOMAIN idxPlayers \cup {s} |->
                      IF i = s THEN idxNewPlayer ELSE idxPlayers[i]]
  /\ idxKeys' = Append(idxKeys, s)
  /\ waitingQueue' = Append(waitingQueue, s)
  /\ UNCHANGED <<gameInProgress, idxRound, idxCurrent, timers, idxOut>>

\* socket.on('joinGame'): the test of the payload
JoinGameAccepted(name) == name.isString /\ Len(Trim(name.str)) > 0

\* socket.on('joinGame')
joinGame(s, name) ==
  /\ s \in DOMAIN idxPlayers
  /\ UNCHANGED <<idxSockets, varsA>>
  /\ IF ~JoinGameAccepted(name)
     THEN UNCHANGED varsB
     ELSE LET named == [idxPlayers EXCEPT ![s].name = Trim(name.str)]
              listed == SelectSeq(waitingQueue, LAMBDA id : named[id].name # <<>>)
              names == [k \in DOMAIN listed |-> named[listed[k]].name]
              notices == EmitEach(listed, "waitingList", names)
              readyPlayers == listed
          IN  /\ idxPlayers' = named
              /\ idxOut' = Log(idxOut, notices)
              /\ UNCHANGED idxKeys
              /\ IF ~gameInProgress /\ Len(readyPlayers) >= 4
                 THEN /\ idxCurrent' = Slice(readyPlayers, 4)
                      /\ waitingQueue' =
                           SelectSeq(waitingQueue,
                                     LAMBDA id : ~Includes(Slice(readyPlayers, 4), id))
                      /\ gameInProgress' = TRUE
                      /\ idxRound' = 0
                      /\ timers' = Append(timers, "first")
                 ELSE UNCHANGED <<idxCurrent, waitingQueue, gameInProgress,
                                  idxRound, timers>>

\* socket.on('guess') of src/server/index.js: the guards
idxGuessAccepted(s, guessedId) ==
  /\ gameInProgress
  /\ s \in DOMAIN idxPlayers
  /\ idxPlayers[s].role = "Police"
  /\ Includes(idxCurrent, guessedId)

\* Transfer taking the points from the Police without giving them to anybody
TransferForfeitOnly(pl, policeId, guessedId) ==
  IF pl[guessedId].role = "Chor"
  THEN pl
  ELSE [pl EXCEPT ![policeId].score = @ - ROLE_POINTS.Police]

\* handleGuess: the scores after the guess
Transfer(pl, policeId, guessedId) ==
  IF pl[guessedId].role = "Chor"
  THEN pl
  ELSE LET paid == [pl EXCEPT ![policeId].score = @ - ROLE_POINTS.Police]
       IN  [paid EXCEPT ![guessedId].score = @ + ROLE_POINTS.Police]

\* handleGuess: the winners of gameOver, by name
idxWinners(pl, roster) ==
  LET ids == SelectSeq(roster, LAMBDA id :
                         \A other \in Range(roster) : pl[other].score <= pl[id].score)
  IN  [k \in DOMAIN ids |-> pl[ids[k]].name]

\* handleGuess
handleGuess(policeId, guessedId) ==
  IF guessedId \notin DOMAIN idxPlayers \/ policeId \notin DOMAIN idxPlayers
  THEN UNCHANGED varsB
  ELSE LET scored == Transfer(idxPlayers, policeId, guessedId)
           result == EmitEach(idxCurrent, "roundResult",
                              [correct |-> idxPlayers[guessedId].role = "Chor"])
       IN  IF idxRound < MAX_ROUNDS
           THEN /\ idxPlayers' = scored
                /\ idxOut' = Log(idxOut, result)
                /\ timers' = Append(timers, "next")
                /\ UNCHANGED <<idxKeys, waitingQueue, gameInProgress, idxRound,
                               idxCurrent>>
           ELSE /\ resetGame(scored, idxKeys,
                             result \o EmitEach(idxCurrent, "gameOver",
                                                idxWinners(scored, idxCurrent)))
                /\ UNCHANGED <<idxKeys, timers>>

\* socket.on('guess') of src/server/index.js; a guess that sets a callback is
\* followed while fewer than maxTimers callbacks are pending and no score
\* would leave -scoreCap..scoreCap
idxGuess(s, guessedId, maxTimers, scoreCap) ==
  /\ s \in DOMAIN idxPlayers
  /\ UNCHANGED <<idxSockets, varsA>>
  /\ IF idxGuessAccepted(s, guessedId)
     THEN /\ idxRound < MAX_ROUNDS => Len(timers) < maxTimers
          /\ handleGuess(s, guessedId)
          /\ \A i \in DOMAIN idxPlayers' :
               idxPlayers'[i].score \in -scoreCap..scoreCap
     ELSE UNCHANGED varsB

\* socket.on('disconnect') of src/server/index.js
idxDisconnect(s) ==
  /\ s \in DOMAIN idxPlayers
  /\ UNCHANGED <<idxSockets, varsA>>
  /\ LET wasCurrent == Includes(idxCurrent, s)
         left == [i \in DOMAIN idxPlayers \ {s} |-> idxPlayers[i]]
         keys == SelectSeq(idxKeys, LAMBDA id : id # s)
         rest == SelectSeq(idxCurrent, LAMBDA id : id # s)
     IN  /\ idxKeys' = keys
         /\ UNCHANGED timers
         /\ IF wasCurrent
            THEN resetGame(left, keys, EmitEach(rest, "playerLeft", <<>>))
            ELSE /\ idxPlayers' = left
                 /\ waitingQueue' = SelectSeq(waitingQueue, LAMBDA id : id # s)
                 /\ idxCurrent' = rest
                 /\ UNCHANGED <<gameInProgress, idxRound, idxOut>>

\* a callback of setTimeout runs: startRound (set by joinGame), or the clearing
\* of the roles and startRound (set by handleGuess); a round is followed while
\* no score would leave -scoreCap..scoreCap
Timeout(k, shuffled, scoreCap) ==
  /\ k \in DOMAIN timers
  /\ MayFire(k)
  /\ UNCHANGED <<idxSockets, varsA>>
  /\ timers' = RemoveAt(timers, k)
  /\ IF timers[k] = "first"
     THEN idxStartRound(idxPlayers, shuffled)
     ELSE idxStartRound(ClearRoles(idxPlayers, idxCurrent), shuffled)
  /\ \A i \in DOMAIN idxPlayers' : idxPlayers'[i].score \in -scoreCap..scoreCap
  /\ UNCHANGED <<idxKeys, waitingQueue, gameInProgress, idxCurrent>>

----------------------------------------------------------------------------
(* The state after construction *)

InitA ==
  /\ players = <<>>
  /\ waiting = <<>>
  /\ currentPlayers = <<>>
  /\ gameStarted = FALSE
  /\ awaitingShuffle = FALSE
  /\ currentRound = 0
  /\ history = <<>>
  /\ out = <<>>
  /\ crashed = FALSE
  /\ sockets = 0

InitB ==
  /\ idxPlayers = <<>>
  /\ idxKeys = <<>>
  /\ waitingQueue = <<>>
  /\ gameInProgress = FALSE
  /\ idxRound = 0
  /\ idxCurrent = <<>>
  /\ timers = <<>>
  /\ idxOut = <<>>
  /\ idxSockets = 0

Init == InitA /\ InitB

\* the events of src/server.js, from n connections, a game followed for cap
\* rounds, the shuffle drawing from perms and join from names
NextA(n, cap, perms, names) ==
  \/ \E s \in 1..n : Connection(n, s)
  \/ \E s \in 1..n, name \in names : Join(s, name)
  \/ \E s \in 1..n, shuffled \in perms : Shuffle(s, shuffled, cap)
  \/ \E s \in 1..n, data \in GuessPayloads(n) : Guess(s, data)
  \/ \E s \in 1..n : Disconnect(s)
  \/ \E s \in 1..n : Restart(s)

\* src/server.js: the lobby, with connections coming and going
LobbyShuffles == Shuffles(NShuffle)

Next == NextA(NConn, RoundCap, LobbyShuffles, NamingPayloads)

Spec == Init /\ [][Next]_vars

\* src/server.js: rounds with every outcome of the shuffle
NextAll == NextA(NConnGame, RoundCapAll, Perms, NamingPayloads)

SpecAll == Init /\ [][NextAll]_vars

\* src/server.js: a game played to its end and past it
GameShuffles == Shuffles(NShuffleGame)

IdxShuffles == Shuffles(NShuffleIdx)

NextGame == NextA(NConnGame, MAX_ROUNDS + ExtraRounds, GameShuffles, NamingPayloads)

SpecGame == Init /\ [][NextGame]_vars

\* src/server.js: joins with every payload, blank names included
NextNames == NextA(NConnNames, RoundCapNames, GameShuffles, JoinPayloads)

SpecNames == Init /\ [][NextNames]_vars

\* the events of src/server/index.js, from n connections
NextB(n, perms, names, maxTimers, scoreCap) ==
  \/ \E s \in 1..n : idxConnection(n, s)
  \/ \E s \in 1..n, name \in names : joinGame(s, name)
  \/ \E s \in 1..n, guessedId \in 0..n : idxGuess(s, guessedId, maxTimers, scoreCap)
  \/ \E s \in 1..n : idxDisconnect(s)
  \/ \E k \in 1..maxTimers, shuffled \in perms : Timeout(k, shuffled, scoreCap)

\* src/server/index.js: the lobby, with connections coming and going
NextIdx == NextB(NConnIdx, IdxShuffles, NamingPayloads, MaxTimers, ScoreCap)

SpecIdx == Init /\ [][NextIdx]_vars

\* src/server/index.js: a game played to its end
NextIdxGame == NextB(NConnIdxGame, IdxShuffles, NamingPayloads, MaxTimers, ScoreCapGame)

SpecIdxGame == Init /\ [][NextIdxGame]_vars

----------------------------------------------------------------------------
(* src/server.js, a game that no participant leaves and nobody restarts:
   connections leave only from the lobby, a shuffle that the server accepts
   eventually arrives, and the Police eventually names a roster member. *)

LobbyDisconnect(s) == ~gameStarted /\ Disconnect(s)

\* an accepted shuffle
ShuffleStep ==
  \E s \in 1..NConnLive, shuffled \in GameShuffles :
    ShuffleAccepted(s) /\ Shuffle(s, shuffled, MAX_ROUNDS + ExtraRounds)

\* an accepted guess that names a roster member
GuessStep ==
  \E s \in 1..NConnLive, data \in GuessPayloads(NConnLive) :
    /\ s \in DOMAIN players
    /\ GuessAccepted(s)
    /\ TargetId(players, currentPlayers, data) # NoId
    /\ Guess(s, data)

NextLive ==
  \/ \E s \in 1..NConnLive : Connection(NConnLive, s)
  \/ \E s \in 1..NConnLive, name \in NamingPayloads : Join(s, name)
  \/ \E s \in 1..NConnLive, shuffled \in GameShuffles :
       Shuffle(s, shuffled, MAX_ROUNDS + ExtraRounds)
  \/ \E s \in 1..NConnLive, data \in GuessPayloads(NConnLive) : Guess(s, data)
  \/ \E s \in 1..NConnLive : LobbyDisconnect(s)

SpecLive ==
  Init /\ [][NextLive]_vars /\ WF_vars(ShuffleStep) /\ WF_vars(GuessStep)

----------------------------------------------------------------------------
(* Both servers in one specification.  The two programs are separate
   processes that share no state, so a behaviour of the pair is followed with
   one of them running and the other still in its initial state. *)

\* src/server/index.js has accepted no connection yet
OnlyServer == idxSockets = 0

\* src/server.js has accepted no connection yet
OnlyIndex == sockets = 0

SoloConnection(s) == OnlyServer /\ Connection(NConn, s)
SoloJoin(s, name) == OnlyServer /\ Join(s, name)
SoloShuffle(s, shuffled) == OnlyServer /\ Shuffle(s, shuffled, RoundCap)
SoloGuess(s, data) == OnlyServer /\ Guess(s, data)
SoloDisconnect(s) == OnlyServer /\ Disconnect(s)
SoloRestart(s) == OnlyServer /\ Restart(s)
SoloIdxConnection(s) == OnlyIndex /\ idxConnection(NConnIdx, s)
SoloJoinGame(s, name) == OnlyIndex /\ joinGame(s, name)
SoloIdxGuess(s, guessedId) == OnlyIndex /\ idxGuess(s, guessedId, MaxTimers, ScoreCap)
SoloIdxDisconnect(s) == OnlyIndex /\ idxDisconnect(s)
SoloTimeout(k, shuffled) == OnlyIndex /\ Timeout(k, shuffled, ScoreCap)

NextBoth ==
  \/ \E s \in 1..NConn : SoloConnection(s)
  \/ \E s \in 1..NConn, name \in NamingPayloads : SoloJoin(s, name)
  \/ \E s \in 1..NConn, shuffled \in LobbyShuffles : SoloShuffle(s, shuffled)
  \/ \E s \in 1..NConn, data \in GuessPayloads(NConn) : SoloGuess(s, data)
  \/ \E s \in 1..NConn : SoloDisconnect(s)
  \/ \E s \in 1..NConn : SoloRestart(s)
  \/ \E s \in 1..NConnIdx : SoloIdxConnection(s)
  \/ \E s \in 1..NConnIdx, name \in NamingPayloads : SoloJoinGame(s, name)
  \/ \E s \in 1..NConnIdx, guessedId \in 0..NConnIdx : SoloIdxGuess(s, guessedId)
  \/ \E s \in 1..NConnIdx : SoloIdxDisconnect(s)
  \/ \E k \in 1..MaxTimers, shuffled \in IdxShuffles : SoloTimeout(k, shuffled)

SpecBoth == Init /\ [][NextBoth]_vars

----------------------------------------------------------------------------
(* Claims *)

Scores(pl) == [i \in DOMAIN pl |-> pl[i].score]
RolesOf(pl) == [i \in DOMAIN pl |-> pl[i].role]

\* a started game of src/server.js with four different participants
FourParticipants ==
  gameStarted /\ Len(currentPlayers) = 4 /\ Cardinality(Range(currentPlayers)) = 4

\* C1: in src/server.js a guess sent while no game is started, while no round
\* awaits its guess, or by a connection that does not hold the Police role
\* changes no score, no role, not the round counter, the history or the
\* rosters, and emits nothing
C1_GuessIgnored ==
  [][\/ /\ Scores(players') = Scores(players)
        /\ RolesOf(players') = RolesOf(players)
        /\ UNCHANGED <<currentRound, history, currentPlayers, waiting,
                       gameStarted, awaitingShuffle, out>>
     \/ \A s \in 1..NConn, data \in GuessPayloads(NConn) :
          Guess(s, data)
          => gameStarted /\ awaitingShuffle /\ players[s].role = "Police"]_vars

\* a round was resolved and the next one has not started: the Police holder
\* still holds the role, and a guess of theirs is one of the ignored ones
C1_Witness ==
  /\ FourParticipants
  /\ ~awaitingShuffle
  /\ Len(history) = 1
  /\ \E s \in DOMAIN players : players[s].role = "Police"
  /\ \E s \in DOMAIN players : ~Includes(currentPlayers, s)

\* C2: in src/server/index.js, once a guess has produced the roundResult of
\* the current round, a further guess before the next role assignment changes
\* no score, emits nothing and sets no callback
C2_OneGuessPerRound ==
  [][\A s \in 1..NConnIdx, guessedId \in 0..NConnIdx :
       (gameInProgress /\ Emitted(idxOut, "roundResult")
        /\ idxGuess(s, guessedId, MaxTimers, ScoreCap))
       => UNCHANGED <<idxPlayers, timers, idxOut>>]_vars

\* C3: in src/server.js a shuffle starts a round only when a game is started,
\* the sender is in the roster and no round awaits its guess, and is a no-op
\* otherwise; while a round awaits its guess no step increments the round
\* counter or gives a player another role
C3_ShuffleGuard ==
  [][/\ \A s \in 1..NConn, shuffled \in LobbyShuffles :
          (Shuffle(s, shuffled, RoundCap)
           /\ ~(gameStarted /\ ~awaitingShuffle /\ Includes(currentPlayers, s)))
          => UNCHANGED varsA
     /\ awaitingShuffle
          => /\ currentRound' <= currentRound
             /\ \A i \in DOMAIN players \cap DOMAIN players' :
                  players'[i].role \in {players[i].role, ""}]_vars

\* the second round of a game awaits its guess
C3_Witness ==
  FourParticipants /\ awaitingShuffle /\ currentRound = 2 /\ Len(history) = 1

\* C4: in src/server.js the round counter stays within 0..MAX_ROUNDS: no round
\* is started after the round numbered MAX_ROUNDS
C4_RoundWithinMax == currentRound \in 0..MAX_ROUNDS

\* C5: in src/server.js the roster of a started game is four different
\* registered connections
C5_FourDistinct ==
  gameStarted =>
    /\ Len(currentPlayers) = 4
    /\ Cardinality(Range(currentPlayers)) = 4
    /\ Range(currentPlayers) \subseteq DOMAIN players

\* C6: in src/server.js, while a round awaits its guess, each of the four
\* roles is held by exactly one participant of the roster
C6_RoleBijection ==
  (gameStarted /\ awaitingShuffle) =>
    \A r \in RoleSet :
      Cardinality({id \in Range(currentPlayers) : players[id].role = r}) = 1

\* C7: in src/server.js the disconnect of one of the four participants of a
\* started game resets the game: no game is started and no round awaits its
\* guess, the round counter is 0, the history is empty, the other three are
\* in the waiting pool with score 0 and no role, and playerLeft is emitted;
\* a roundResult is only ever emitted for a round that awaits its guess in a
\* started game
C7_DisconnectResets ==
  [][/\ \A s \in 1..NConn :
          (FourParticipants /\ Includes(currentPlayers, s) /\ Disconnect(s))
          => /\ ~gameStarted' /\ ~awaitingShuffle'
             /\ currentRound' = 0
             /\ history' = <<>>
             /\ s \notin DOMAIN players'
             /\ \A id \in Range(currentPlayers) \ {s} :
                  /\ Includes(waiting', id)
                  /\ players'[id].score = 0
                  /\ players'[id].role = ""
             /\ Emitted(out', "playerLeft")
     /\ (out' # out /\ Emitted(out', "roundResult"))
          => /\ gameStarted /\ awaitingShuffle
             /\ \A k \in DOMAIN out' :
                  out'[k].ev = "roundResult" => out'[k].arg.round = currentRound]_vars

\* a participant left a game: the other three wait, nothing is started
C7_Witness ==
  /\ Emitted(out, "playerLeft")
  /\ ~gameStarted
  /\ Cardinality(Range(waiting)) = 3
  /\ \A id \in Range(waiting) : players[id].score = 0 /\ players[id].name # <<>>

\* C8: in src/server.js the roster is empty whenever no game is started
C8_EmptyWhenNotStarted == ~gameStarted => currentPlayers = <<>>

\* C9: in src/server/index.js no callback starts a round after the reset of
\* its game: the round counter is 0 while no game is in progress
C9_NoRoundWithoutGame == ~gameInProgress => idxRound = 0

\* C10: in src/server.js a restart received while a game of four participants
\* is started puts each of the four in the waiting pool exactly once, with
\* score 0 and no role, empties the history and the roster, sets the round
\* counter to 0 and both flags to false, and emits gameReset
C10_RestartResets ==
  [][\A s \in 1..NConn :
       (FourParticipants /\ Restart(s))
       => /\ \A id \in Range(currentPlayers) :
               /\ Count(waiting', id) = 1
               /\ players'[id].score = 0
               /\ players'[id].role = ""
          /\ history' = <<>>
          /\ currentRound' = 0
          /\ ~gameStarted' /\ ~awaitingShuffle'
          /\ currentPlayers' = <<>>
          /\ Emitted(out', "gameReset")]_vars

\* a game of four was restarted: all four wait again, once each
C10_Witness ==
  /\ Emitted(out, "gameReset")
  /\ ~gameStarted
  /\ Len(waiting) >= 4
  /\ \A id \in Range(waiting) : Count(waiting, id) = 1

\* the named entries of a waiting queue, in queue order
Named(pl, w) == SelectSeq(w, LAMBDA id : id \in DOMAIN pl /\ pl[id].name # <<>>)

\* C11: in both servers, after every handler that completed, fewer than four
\* named participants wait while no game is active: promotion is not deferred
\* to a later join
C11_PromotionNotDeferred ==
  /\ (~crashed /\ ~gameStarted) => Len(Named(players, waiting)) < 4
  /\ ~gameInProgress => Len(Named(idxPlayers, waitingQueue)) < 4

\* each of the four roles is held by exactly one participant of the roster
RolesBijective ==
  \A r \in RoleSet :
    Cardinality({id \in Range(currentPlayers) : players[id].role = r}) = 1

\* what a step adds to the cumulative score of the holder of a role
Delta(role) ==
  LET id == Holder(players, currentPlayers, role)
  IN  players'[id].score - players[id].score

\* C12: in src/server.js, for every role bijection and every accepted guess,
\* the resolution of a round adds to the cumulative scores what the table
\* says: a guess naming the holder of the round's target role (Chor on odd
\* rounds, Dakat on even ones) gives the Police 800, the other of Chor and
\* Dakat its points (Dakat 600, Chor 400) and the target nothing; any other
\* guess gives the Police nothing, the Chor 400 and the Dakat 600; the Babu
\* gets nothing at resolution, and correct is true exactly on a hit
C12_ScoreTable ==
  [][(Len(history') = Len(history) + 1 /\ FourParticipants /\ RolesBijective)
     => \A s \in 1..NConnGame, data \in GuessPayloads(NConnGame) :
          Guess(s, data)
          => LET odd == currentRound % 2 = 1
                 guessed == TargetId(players, currentPlayers, data)
                 hit == players[guessed].role = (IF odd THEN "Chor" ELSE "Dakat")
             IN  /\ Delta("Police") = (IF hit THEN 800 ELSE 0)
                 /\ Delta("Chor") = (IF hit /\ odd THEN 0 ELSE 400)
                 /\ Delta("Dakat") = (IF hit /\ ~odd THEN 0 ELSE 600)
                 /\ Delta("Babu") = 0
                 /\ history'[Len(history')].correct = hit]_vars

\* two rounds of a game of four were resolved, the first by a wrong guess and
\* the second by a right one
C12_Witness ==
  /\ FourParticipants
  /\ Len(history) = 2
  /\ ~history[1].correct
  /\ history[2].correct

\* the participants of the roster that hold the Babu role in the registry pl
Babus(pl, roster) ==
  {id \in DOMAIN pl : Includes(roster, id) /\ pl[id].role = "Babu"}

\* C13: in src/server.js the Babu's 900 points are granted once per round: the
\* step that starts a round adds exactly 900 to the score of the participant
\* it makes Babu, the resolution of the round leaves that score unchanged while
\* its history entry records 900 points for the Babu, and no other step changes
\* the score of a Babu holder except by resetting it to 0
C13_BabuOnce ==
  [][/\ currentRound' = currentRound + 1
          => \A id \in Babus(players', currentPlayers') :
               players'[id].score = players[id].score + 900
     /\ Len(history') = Len(history) + 1
          => \A id \in Babus(players, currentPlayers) :
               /\ players'[id].score = players[id].score
               /\ \A k \in DOMAIN currentPlayers :
                    currentPlayers[k] = id
                    => /\ history'[Len(history')].gains[k].id = id
                       /\ history'[Len(history')].gains[k].points = 900
     /\ currentRound' # currentRound + 1
          => \A id \in Babus(players, currentPlayers) \cap DOMAIN players' :
               players'[id].score \in {players[id].score, 0}]_vars

\* the first round of a game of four was resolved: the Babu holder's score is
\* the 900 points of the assignment, and the history records them
C13_Witness ==
  /\ FourParticipants
  /\ ~awaitingShuffle
  /\ Len(history) = 1
  /\ \E k \in DOMAIN currentPlayers :
       /\ players[currentPlayers[k]].role = "Babu"
       /\ players[currentPlayers[k]].score = 900
       /\ history[1].gains[k].points = 900

\* C14: in src/server/index.js a role assignment adds 1000 to the Babu, 500 to
\* the Police, 300 to the Dakat and nothing to the Chor; an accepted guess
\* naming the Chor changes no score; after any other accepted guess the score
\* of the Police is exactly 500 lower and the score of the accused exactly 500
\* higher than before it
C14_IdxScoreRules ==
  [][/\ idxRound' = idxRound + 1
          => \A id \in Range(idxCurrent) :
               idxPlayers'[id].score - idxPlayers[id].score =
                 (CASE idxPlayers'[id].role = "Babu" -> 1000
                    [] idxPlayers'[id].role = "Police" -> 500
                    [] idxPlayers'[id].role = "Dakat" -> 300
                    [] OTHER -> 0)
     /\ \A s \in 1..NConnIdx, guessedId \in 1..NConnIdx :
          (idxGuessAccepted(s, guessedId)
           /\ idxGuess(s, guessedId, MaxTimers, ScoreCap))
          => IF idxPlayers[guessedId].role = "Chor"
             THEN \A id \in DOMAIN idxPlayers :
                    idxPlayers'[id].score = idxPlayers[id].score
             ELSE /\ idxPlayers'[s].score = idxPlayers[s].score - 500
                  /\ idxPlayers'[guessedId].score = idxPlayers[guessedId].score + 500]_vars

\* C15: in src/server.js the history of a running server has one entry per
\* resolved round, the i-th numbered i; its length is currentRound when no
\* round awaits its guess and currentRound - 1 when one does; a step that
\* changes the history either appends one entry or, resetting the game,
\* empties it
C15_History ==
  /\ [](~crashed =>
          /\ \A i \in DOMAIN history : history[i].round = i
          /\ Len(history) = (IF awaitingShuffle THEN currentRound - 1 ELSE currentRound))
  /\ [][(history' # history /\ ~crashed')
        => \/ /\ Len(history') = Len(history) + 1
              /\ SubSeq(history', 1, Len(history)) = history
           \/ /\ history' = <<>>
              /\ currentRound' = 0]_vars

\* three rounds of a game of four were resolved and the fourth awaits its guess
C15_Witness ==
  FourParticipants /\ awaitingShuffle /\ currentRound = 4 /\ Len(history) = 3

\* the names of the participants of a roster whose score in pl is the highest
\* of the roster, in roster order
TopNames(pl, roster) ==
  LET top == SelectSeq(roster, LAMBDA id :
                         \A other \in Range(roster) : pl[other].score <= pl[id].score)
  IN  [k \in DOMAIN top |-> pl[top[k]].name]

\* C16: in both servers gameOver is emitted only by the resolution of the
\* round numbered MAX_ROUNDS, and the winners it lists are the participants
\* whose cumulative score is the highest of the roster, every one of them
C16_GameOver ==
  [][/\ (out' # out /\ Emitted(out', "gameOver"))
          => /\ currentRound = MAX_ROUNDS
             /\ Len(history') = Len(history) + 1
             /\ \A k \in DOMAIN out' :
                  out'[k].ev = "gameOver"
                  => out'[k].arg = TopNames(players', currentPlayers)
     /\ (idxOut' # idxOut /\ Emitted(idxOut', "gameOver"))
          => /\ idxRound = MAX_ROUNDS
             /\ \A k \in DOMAIN idxOut' :
                  idxOut'[k].ev = "gameOver"
                  => idxOut'[k].arg = TopNames(idxPlayers', idxCurrent)]_vars

\* C17: in src/server/index.js every game starts from a clean slate: the four
\* participants of a game that a join promotes have score 0 and no role, and
\* the participants that a reset of the game returns to the waiting queue have
\* score 0 and no role
C17_CleanSlate ==
  [][/\ (~gameInProgress /\ gameInProgress')
          => \A id \in Range(idxCurrent') :
               idxPlayers'[id].score = 0 /\ idxPlayers'[id].role = Null
     /\ (gameInProgress /\ ~gameInProgress')
          => \A id \in Range(idxCurrent) \cap DOMAIN idxPlayers' :
               /\ Includes(waitingQueue', id)
               /\ idxPlayers'[id].score = 0
               /\ idxPlayers'[id].role = Null]_vars

\* C18: in src/server.js a join whose name is empty or only whitespace has no
\* effect: the stored name of the sender and of everybody else is unchanged,
\* and no game is started or roster claimed by it
C18_BlankJoinRejected ==
  [][\A s \in 1..NConnNames, name \in JoinPayloads :
       (name.isString /\ Trim(name.str) = <<>> /\ Join(s, name))
       => /\ \A id \in DOMAIN players : players'[id].name = players[id].name
          /\ UNCHANGED <<waiting, currentPlayers, gameStarted>>]_vars

\* what is left of a queue when every entry of a roster is taken out of it
Without(w, roster) == SelectSeq(w, LAMBDA id : ~Includes(roster, id))

\* C19: in both servers, when a join promotes a game, the roster is the first
\* four named entries of the waiting queue in queue order, the queue loses
\* those entries in the same step and keeps the others in their order; while a
\* game is active no step claims a roster
C19_PromotionOrder ==
  [][/\ (~gameStarted /\ gameStarted')
          => /\ Len(Named(players', waiting)) >= 4
             /\ currentPlayers' = SubSeq(Named(players', waiting), 1, 4)
             /\ waiting' = Without(waiting, currentPlayers')
     /\ (gameStarted /\ gameStarted') => currentPlayers' = currentPlayers
     /\ (~gameInProgress /\ gameInProgress')
          => /\ Len(Named(idxPlayers', waitingQueue)) >= 4
             /\ idxCurrent' = SubSeq(Named(idxPlayers', waitingQueue), 1, 4)
             /\ waitingQueue' = Without(waitingQueue, idxCurrent')
     /\ (gameInProgress /\ gameInProgress') => idxCurrent' = idxCurrent]_vars

\* a game of src/server.js was promoted past an unnamed entry of the queue,
\* which still waits
C19_Witness ==
  /\ gameStarted
  /\ currentRound = 0
  /\ Len(waiting) = 1
  /\ players[waiting[1]].name = <<>>
  /\ \A id \in Range(currentPlayers) : waiting[1] < id

\* the sum of the cumulative scores of a roster
RECURSIVE SumScores(_, _)
SumScores(pl, roster) ==
  IF roster = <<>> THEN 0
  ELSE pl[Head(roster)].score + SumScores(pl, Tail(roster))

\* C20: in src/server/index.js, while a game keeps its roster, a role
\* assignment adds exactly 1800 to the sum of the participants' cumulative
\* scores and every other step, the resolution of a guess included, leaves
\* the sum unchanged
C20_Conservation ==
  [][(idxCurrent # <<>> /\ idxCurrent' = idxCurrent)
     => SumScores(idxPlayers', idxCurrent) =
          SumScores(idxPlayers, idxCurrent)
          + (IF idxRound' = idxRound + 1 THEN 1800 ELSE 0)]_vars

\* the second round of a game was assigned after a wrong guess in the first:
\* some score is not twice its role's points, and the sum is 2 * 1800
C20_Witness ==
  /\ gameInProgress
  /\ idxRound = 2
  /\ Len(idxCurrent) = 4
  /\ SumScores(idxPlayers, idxCurrent) = 3600
  /\ \E id \in Range(idxCurrent) :
       /\ idxPlayers[id].role \in RoleSet
       /\ idxPlayers[id].score # 2 * ROLE_POINTS[idxPlayers[id].role]

\* the policeTurn requests of a batch of emitted events
PoliceTurns(o) == SelectSeq(o, LAMBDA e : e.ev = "policeTurn")

\* the participants of a roster that hold a role in the registry pl
HoldersOf(pl, roster, role) ==
  {id \in Range(roster) : id \in DOMAIN pl /\ pl[id].role = role}

\* C21: in src/server.js every started round sends one policeTurn, to the
\* holder of the Police role and to nobody else; its guessTarget is Chor on an
\* odd round and Dakat on an even one; its suspects are the two participants
\* that hold Chor and Dakat
C21_PoliceTurn ==
  [][(currentRound' = currentRound + 1 /\ ~crashed')
     => LET turns == PoliceTurns(out')
        IN  /\ Len(turns) = 1
            /\ HoldersOf(players', currentPlayers', "Police") = {turns[1].to}
            /\ turns[1].arg.guessTarget =
                 (IF currentRound' % 2 = 1 THEN "Chor" ELSE "Dakat")
            /\ Len(turns[1].arg.suspects) = 2
            /\ Range(turns[1].arg.suspects) =
                 HoldersOf(players', currentPlayers', "Chor")
                 \cup HoldersOf(players', currentPlayers', "Dakat")
            /\ Cardinality(Range(turns[1].arg.suspects)) = 2]_vars

\* C22: in src/server.js every registered player that is not a participant of
\* a started game has an empty role, and while the round counter is 0 every
\* registered player has an empty role
C22_RolesOnlyInRound ==
  \A id \in DOMAIN players :
    (currentRound = 0 \/ ~(gameStarted /\ Includes(currentPlayers, id)))
    => players[id].role = ""

\* a round of a game of four is assigned while a fifth connection waits
C22_Witness ==
  /\ FourParticipants
  /\ currentRound = 2
  /\ \A id \in Range(currentPlayers) : players[id].role \in RoleSet
  /\ \E id \in DOMAIN players : ~Includes(currentPlayers, id)

\* C23: in both servers a display name is set once: a registered connection
\* whose name is a non-empty string keeps that name through every later step
C23_NameSetOnce ==
  [][/\ \A id \in DOMAIN players \cap DOMAIN players' :
          players[id].name # <<>> => players'[id].name = players[id].name
     /\ \A id \in DOMAIN idxPlayers \cap DOMAIN idxPlayers' :
          idxPlayers[id].name # <<>> => idxPlayers'[id].name = idxPlayers[id].name]_vars

\* C24: in src/server.js a restart received while no game is started changes
\* neither the waiting pool nor the player records, the round counter or the
\* history, and emits nothing
C24_RestartNoGame ==
  [][\A s \in 1..NConn :
       (~gameStarted /\ Restart(s))
       => UNCHANGED <<waiting, players, currentRound, history, out>>]_vars

\* C25: in src/server.js no sequence of events makes a handler dereference a
\* missing player record or a missing role holder: no handler throws
C25_NoCrash == ~crashed

\* C26: in src/server/index.js the rounds of a game are started one after the
\* other: a round after the first is not started while the last thing the
\* server emitted is still the role assignment of the round before it (that
\* round has no result yet), and a game never has two next-round callbacks
\* pending, so that a resolved round starts one round and no more
C26_RoundsInOrder ==
  [][/\ (idxRound' = idxRound + 1 /\ idxRound >= 1 /\ idxCurrent # <<>>)
          => ~Emitted(idxOut, "roleAssigned")
     /\ gameInProgress' => Count(timers', "next") <= 1]_vars

\* the registries that give every player of pl the same role and other
\* cumulative scores, pending points and names
SameRoles(pl) ==
  {[id \in DOMAIN pl |->
      [name |-> <<"b">>, score |-> sc[id], role |-> pl[id].role, pending |-> 0]] :
     sc \in [DOMAIN pl -> {0, 1700}]}

C28_GameEnds ==
  /\ (FourParticipants /\ currentRound = 0)
       ~> (Emitted(out, "gameOver") /\ Len(history) = MAX_ROUNDS
           /\ currentRound = MAX_ROUNDS)
  /\ [](Emitted(out, "gameOver") => Len(history) >= MAX_ROUNDS)

\* the tenth round of such a game was resolved and gameOver emitted
C28_Witness ==
  /\ FourParticipants
  /\ Emitted(out, "gameOver")
  /\ Len(history) = MAX_ROUNDS
  /\ ~awaitingShuffle

\* the order of the roles along a roster of four
HeldOrder(pl, roster) == [k \in 1..4 |-> pl[roster[k]].role]

\* of the equally likely answers of the comparator, how many put role r at
\* place k of the sorted array
PlaceChance(array, k, r) ==
  Cardinality({less \in Comparisons : sort(array, less)[k] = r})

\* the order p has one chance in 24 under the weights chance, and the role
\* of each of its places has one chance in 4 of being there
Unbiased(array, chance, p) ==
  /\ chance[p] * 24 = Cardinality(Comparisons)
  /\ \A k \in 1..4 : PlaceChance(array, k, p[k]) * 4 = Cardinality(Comparisons)

\* C29: in both servers every assignment of the four roles to four
\* participants that assignRoles makes is one it makes with probability 1/24,
\* and each role is at its participant's place with probability 1/4
C29_UniformShuffle ==
  /\ (FourParticipants /\ RolesBijective)
       => Unbiased(Roles, Chance, HeldOrder(players, currentPlayers))
  /\ (/\ gameInProgress
      /\ Len(idxCurrent) = 4
      /\ \A k \in 1..4 : idxCurrent[k] \in DOMAIN idxPlayers
      /\ \A r \in RoleSet : \E k \in 1..4 : idxPlayers[idxCurrent[k]].role = r)
       => Unbiased(idxRoles, idxChance, HeldOrder(idxPlayers, idxCurrent))

\* C30: in both servers a guess of the Police that names the Police
\* themselves, and in src/server.js one that names the holder of the Babu,
\* resolves no round: it changes no score, adds nothing to the history and
\* emits nothing
C30_InvalidTargetRejected ==
  [][/\ \A s \in DOMAIN players, data \in GuessPayloads(NConn) :
          (/\ GuessAccepted(s)
           /\ ~Throws(players, currentPlayers)
           /\ LET targetId == TargetId(players, currentPlayers, data)
              IN  /\ targetId # NoId
                  /\ targetId = s \/ players[targetId].role = "Babu"
           /\ Guess(s, data))
          => /\ Scores(players') = Scores(players)
             /\ history' = history
             /\ out' = out
     /\ \A s \in DOMAIN idxPlayers :
          (idxGuessAccepted(s, s) /\ idxGuess(s, s, MaxTimers, ScoreCap))
          => /\ Scores(idxPlayers') = Scores(idxPlayers)
             /\ idxOut' = idxOut]_vars

\* C31: in src/server.js every registered id is exactly once in the waiting
\* queue followed by the roster, and no other id is in either
C31_Partition ==
  ~crashed =>
    \A id \in 1..NConn :
      Count(waiting \o currentPlayers, id) = (IF id \in DOMAIN players THEN 1 ELSE 0)

\* the game of src/server.js as its participants hold it: roster, round
\* counter, awaiting flag, history, and the role and score of every roster
\* place
GameOf(pl, roster, round, awaiting, hist) ==
  [roster |-> roster, round |-> round, awaiting |-> awaiting, history |-> hist,
   held |-> [k \in DOMAIN roster |->
               IF roster[k] \in DOMAIN pl
               THEN [role |-> pl[roster[k]].role, score |-> pl[roster[k]].score]
               ELSE [role |-> "", score |-> 0]]]

\* C32: in src/server.js a shuffle, guess, restart, join or disconnect of a
\* connection that is not a participant of the started game leaves the
\* roster, the round counter, the awaiting flag, the history and the roles and
\* scores of the participants unchanged
C32_OutsiderNoEffect ==
  [][\A s \in DOMAIN players :
       (/\ gameStarted
        /\ ~Includes(currentPlayers, s)
        /\ \/ \E shuffled \in LobbyShuffles : Shuffle(s, shuffled, RoundCap)
           \/ \E data \in GuessPayloads(NConn) : Guess(s, data)
           \/ Restart(s)
           \/ \E name \in NamingPayloads : Join(s, name)
           \/ Disconnect(s))
       => GameOf(players', currentPlayers', currentRound', awaitingShuffle', history')
            = GameOf(players, currentPlayers, currentRound, awaitingShuffle, history)]_vars

\* C33: in src/server.js the disconnect of a connection of the waiting queue
\* removes its player record and its places in the queue and nothing else:
\* the roster, gameStarted, awaitingShuffle, the round counter, the history
\* and the record of every other player are unchanged
C33_WaitingDisconnectFrame ==
  [][\A s \in DOMAIN players :
       (Includes(waiting, s) /\ Disconnect(s))
       => /\ DOMAIN players' = DOMAIN players \ {s}
          /\ \A id \in DOMAIN players' : players'[id] = players[id]
          /\ waiting' = Without(waiting, <<s>>)
          /\ UNCHANGED <<currentPlayers, gameStarted, awaitingShuffle,
                         currentRound, history>>]_vars

\* a fifth connection left the waiting queue while the four others were in
\* the first round of their game, which still awaits its guess
C33_Witness ==
  /\ sockets = 5
  /\ 5 \notin DOMAIN players
  /\ currentPlayers = <<1, 2, 3, 4>>
  /\ gameStarted /\ awaitingShuffle /\ currentRound = 1
  /\ \E id \in 1..4 : players[id].score = rolePoints.Babu
  /\ waiting = <<>>
  /\ out = <<Emit("updatePlayers", NoId, <<>>)>>

\* totals[g.id] += g.points over the gains of one history entry
RECURSIVE SumPoints(_, _)
SumPoints(gains, id) ==
  IF gains = <<>> THEN 0
  ELSE (IF Head(gains).id = id THEN Head(gains).points ELSE 0)
       + SumPoints(Tail(gains), id)

\* the total of a participant under the history table of the client
RECURSIVE Totals(_, _)
Totals(hist, id) ==
  IF hist = <<>> THEN 0
  ELSE SumPoints(Head(hist).gains, id) + Totals(Tail(hist), id)

\* C34: in a started game of src/server.js the cumulative score of every
\* participant is the total of its points over the history, except that
\* while a round awaits its guess the holder of the Babu is 900 ahead
C34_ScoreIsHistoryTotal ==
  (gameStarted /\ ~crashed) =>
    \A id \in Range(currentPlayers) :
      id \in DOMAIN players =>
        players[id].score =
          Totals(history, id)
          + (IF awaitingShuffle /\ players[id].role = "Babu"
             THEN rolePoints.Babu ELSE 0)

\* C35: in src/server.js no step of a started game makes the score of a
\* participant smaller; a score only becomes smaller by becoming 0 in a step
\* that starts or ends a game; and no score is ever negative
C35_ScoresGrow ==
  /\ [][/\ (gameStarted /\ gameStarted')
             => \A id \in Range(currentPlayers) :
                  (id \in DOMAIN players /\ id \in DOMAIN players')
                  => players'[id].score >= players[id].score
        /\ \A id \in DOMAIN players :
             (id \in DOMAIN players' /\ players'[id].score < players[id].score)
             => players'[id].score = 0 /\ gameStarted' # gameStarted]_vars
  /\ [](\A id \in DOMAIN players : players[id].score >= 0)

\* the second round of a game of four was resolved with a wrong guess after a
\* right one: the Police of each round moved on from the score it had
C35_Witness ==
  /\ FourParticipants
  /\ Len(history) = 2
  /\ ~awaitingShuffle
  /\ history[1].correct /\ ~history[2].correct
  /\ \E id \in Range(currentPlayers) : players[id].score >= 1700

\* C36: in src/server/index.js no registered player ever has a negative
\* cumulative score
C36_IdxScoresNotNegative ==
  \A id \in DOMAIN idxPlayers : idxPlayers[id].score >= 0

\* the updatePlayers events of a batch of emitted events
LobbyUpdates(o) == SelectSeq(o, LAMBDA e : e.ev = "updatePlayers")

\* C37: in src/server.js every handler that changes the waiting queue or the
\* name of a waiting player emits updatePlayers, and the last list it emits is
\* the list of the non-empty names of the queue as the handler leaves it
C37_LobbyListCurrent ==
  [][(/\ ~crashed'
      /\ \/ waiting' # waiting
         \/ \E id \in Range(waiting') :
              id \in DOMAIN players /\ players'[id].name # players[id].name)
     => /\ LobbyUpdates(out') # <<>>
        /\ LobbyUpdates(out')[Len(LobbyUpdates(out'))].arg
             = LobbyNames(players', waiting')]_vars

\* the places of a roster whose participant has the name of the payload
NamedPlaces(pl, roster, data) ==
  {k \in DOMAIN roster : data.name # <<>> /\ pl[roster[k]].name = data.name}

\* C38: in src/server.js the target of a guess is the payload's id when that
\* is a participant, otherwise the first participant in roster order with the
\* payload's name; with neither the guess changes nothing, and a guess by name
\* is the same step as the guess by the id of that participant
C38_GuessTarget ==
  [][\A s \in DOMAIN players, data \in GuessPayloads(NConn) :
       (GuessAccepted(s) /\ ~Throws(players, currentPlayers) /\ Guess(s, data))
       => LET places == NamedPlaces(players, currentPlayers, data)
              target ==
                IF data.id # NoId /\ Includes(currentPlayers, data.id)
                THEN data.id
                ELSE IF places # {} THEN currentPlayers[Min(places)] ELSE NoId
          IN  IF target = NoId
              THEN UNCHANGED vars
              ELSE /\ Guess(s, [id |-> target, name |-> <<>>])
                   /\ ~crashed' => Len(history') = Len(history) + 1]_vars

\* a right guess resolved the first round of a game whose first participant
\* is named b, while the Chor is the first participant named a
C38_Witness ==
  /\ FourParticipants
  /\ Len(history) = 1
  /\ history[1].correct
  /\ ~awaitingShuffle
  /\ players[currentPlayers[1]].name = <<"b">>
  /\ LET chorId == Holder(players, currentPlayers, "Chor")
     IN  /\ chorId # NoId
         /\ chorId = Find(SelectSeq(currentPlayers,
                                    LAMBDA id : players[id].name = <<"a">>))

\* the places of a batch of emitted events that hold the event ev
PlacesOf(o, ev) == {k \in DOMAIN o : o[k].ev = ev}

\* C39: in src/server/index.js the guess that resolves round MAX_ROUNDS emits
\* roundResult and then gameOver to the four participants before gameReset,
\* and leaves no game in progress, the round counter at 0, an empty roster,
\* every connected player once in the waiting queue, every role null and no
\* callback of a next round pending
C39_FinalResultsThenReset ==
  [][\A s \in DOMAIN idxPlayers, guessedId \in 1..NConnIdxGame :
       (/\ idxRound = MAX_ROUNDS
        /\ Len(idxCurrent) = 4
        /\ idxGuessAccepted(s, guessedId)
        /\ idxGuess(s, guessedId, MaxTimers, ScoreCapGame))
       => /\ \A id \in Range(idxCurrent) :
               /\ \E k \in PlacesOf(idxOut', "roundResult") : idxOut'[k].to = id
               /\ \E k \in PlacesOf(idxOut', "gameOver") : idxOut'[k].to = id
          /\ PlacesOf(idxOut', "gameReset") # {}
          /\ \A i \in PlacesOf(idxOut', "roundResult"),
                j \in PlacesOf(idxOut', "gameOver"),
                k \in PlacesOf(idxOut', "gameReset") : i < j /\ j < k
          /\ ~gameInProgress'
          /\ idxRound' = 0
          /\ idxCurrent' = <<>>
          /\ \A id \in DOMAIN idxPlayers' :
               Count(waitingQueue', id) = 1 /\ idxPlayers'[id].role = Null
          /\ Range(waitingQueue') = DOMAIN idxPlayers'
          /\ timers' = <<>>]_vars

====
